---------------------------- MODULE Spec2Model ----------------------------
(***************************************************************************)
(* x_to_slack: the X API search client with its retry loop                 *)
(* (services/x-client.ts), the tweet processing pipeline                   *)
(* (services/tweet-processor.ts), query construction                       *)
(* (utils/query-builder.ts), webhook delivery (services/slack-notifier.ts) *)
(* and the daily job that runs them in turn (index.ts).                    *)
(*                                                                         *)
(* The specifications share the module's variables:                        *)
(*   SpecClient   one call of XApiClient.searchRecentTweetsWithRetry       *)
(*   SpecProcess  one call of processTweets                                *)
(*   SpecQuery    one call of buildSearchQueries                           *)
(*   SpecNotify   one call of sendDailySummary or sendErrorNotification    *)
(*   SpecJob      one run of executeDailyJob                               *)
(*   SpecTrigger  one request to the /trigger endpoint                     *)
(* FairSpecClient, FairSpecNotify and FairSpecJob add the fairness the     *)
(* runtime gives: a pending fetch() settles and a timer fires.             *)
(* Under each, the variables of the components it does not run keep their  *)
(* idle values.                                                            *)
(***************************************************************************)
EXTENDS Integers, Sequences, FiniteSets, TLC

VARIABLES
    \* ---- searchRecentTweetsWithRetry (one call) ----
    cpc,          \* position of the call: idle, inflight, sleeping, returned, raised
    maxRetries,   \* the maxRetries argument
    attempt,      \* the loop counter `attempt`
    lastError,    \* the local `lastError`
    requests,     \* number of fetch() calls issued so far
    inflight,     \* number of fetch() calls not yet settled
    sleeps,       \* number of sleep(retryDelay) calls started so far
    upstream,     \* what fetch() settled with, one entry per settled request
    outcome,      \* what the call returned or threw
    \* ---- processTweets (one call) ----
    ppc,          \* position of the call: ready, done
    response,     \* the `response` argument
    minLikes,     \* the `minLikes` argument
    displayLimit, \* the `displayLimit` argument, or Omitted
    output,       \* the returned array
    \* ---- buildSearchQueries (one call) ----
    qpc,          \* position of the call: unused, ready, done
    keywords,     \* the `keywords` argument
    settings,     \* the `globalSettings` argument
    keywordTerms, \* the local `keywordTerms`
    built,        \* what the call returned or threw
    \* ---- SlackNotifier (one call of sendDailySummary or sendErrorNotification) ----
    npc,          \* position of the call: unused, idle, posting, sleeping, done
    nmethod,      \* the method called: summary, error (none while unused)
    retries,      \* the `retries` argument of the running sendWithRetry
    posts,        \* number of POSTs issued so far, for each method
    nsleeps,      \* number of sleep(RETRY_DELAY) calls started so far
    lastPost,     \* what the last settled POST settled with
    nresult,      \* what the method returned or threw
    \* ---- executeDailyJob (one run) ----
    jpc,          \* position of the run: unused, start, build, search, process,
                  \* send, notify, completed, failed
    env,          \* the `env` argument: X_BEARER_TOKEN and SLACK_WEBHOOK_URL
    config,       \* the contents of keywords.json
    fetchedCount, \* the local `fetchedCount`
    summary,      \* the local `summary`
    jobError,     \* the `error` the catch block caught
    notified,     \* number of sendErrorNotification calls made
    jobResult,    \* what the run returned or threw
    \* ---- GET /trigger (one request) ----
    tpc,              \* position of the handler: unused, received, running, answered
    manualTriggerKey, \* env.MANUAL_TRIGGER_KEY, or Absent
    queryKey,         \* the request's `key` query parameter, or Absent
    httpStatus        \* the status of the answer, 0 before it

clientVars == <<cpc, maxRetries, attempt, lastError, requests, inflight, sleeps,
                upstream, outcome>>
processVars == <<ppc, response, minLikes, displayLimit, output>>
queryVars == <<qpc, keywords, settings, keywordTerms, built>>
notifyVars == <<npc, nmethod, retries, posts, nsleeps, lastPost, nresult>>
jobVars == <<jpc, env, config, fetchedCount, summary, jobError, notified, jobResult>>
triggerVars == <<tpc, manualTriggerKey, queryKey, httpStatus>>
vars == <<clientVars, processVars, queryVars, notifyVars, jobVars, triggerVars>>

\* What a call of one component leaves alone: the other components.
nonClientVars == <<processVars, queryVars, notifyVars, jobVars, triggerVars>>
nonProcessVars == <<clientVars, queryVars, notifyVars, jobVars, triggerVars>>
nonQueryVars == <<clientVars, processVars, notifyVars, jobVars, triggerVars>>
nonNotifyVars == <<clientVars, processVars, queryVars, jobVars, triggerVars>>

(***************************************************************************)
(* Bounds of the model.                                                    *)
(***************************************************************************)
MaxRetriesBound == 2

(***************************************************************************)
(* XApiClientError and the value a call settles with.                      *)
(* Messages are modelled by the fixed part of the message text:            *)
(*   "auth"    X API 認証エラー: トークンが無効です                        *)
(*   "credit"  X API クレジット枯渇: クレジットをチャージしてください      *)
(*   "rate"    X API レート制限: しばらく待ってから再試行してください      *)
(*   "server"  X API サーバーエラー: <status>                              *)
(*   "generic" X API エラー: <status>                                      *)
(*   "timeout" X API リクエストがタイムアウトしました                      *)
(*   "failed"  X API リクエストに失敗しました: <cause>                     *)
(* An absent `errors` argument is modelled as the empty list.              *)
(***************************************************************************)
XApiClientError(message, statusCode, errors) ==
    [name |-> "XApiClientError", message |-> message,
     statusCode |-> statusCode, errors |-> errors]

NoError == [name |-> "null", message |-> "", statusCode |-> -1, errors |-> <<>>]

Return(data) == [kind |-> "return", data |-> data, error |-> NoError]

Throw(error) == [kind |-> "throw", data |-> "none", error |-> error]

Pending == [kind |-> "pending", data |-> "none", error |-> NoError]

(***************************************************************************)
(* What fetch() can settle with: a response (status and body), an abort    *)
(* by the 10 s timer (AbortError), or any other rejection.                 *)
(* A body is a search payload, a document with an `errors` list, or text   *)
(* that is not JSON.                                                       *)
(***************************************************************************)
HttpStatuses ==
    {200, 299, 304, 400, 401, 402, 403, 404, 429, 499,
     500, 501, 502, 503, 504, 505, 599}

Payloads == {"payload1", "payload2"}

ResponseOk(status) == status >= 200 /\ status <= 299

FetchOutcomes ==
    {[type |-> "response", status |-> s, body |-> b] :
        s \in {x \in HttpStatuses : ResponseOk(x)},
        b \in Payloads \cup {"notJson"}}
    \cup
    {[type |-> "response", status |-> s, body |-> "errorsDoc"] :
        s \in {x \in HttpStatuses : ~ResponseOk(x)}}
    \cup
    {[type |-> "response", status |-> s, body |-> "notJson"] : s \in {401, 503}}
    \cup
    {[type |-> "abort", status |-> 0, body |-> "none"],
     [type |-> "network", status |-> 0, body |-> "none"]}

(***************************************************************************)
(* handleErrorResponse: nothing for an ok response, else throws the        *)
(* XApiClientError the status selects.                                     *)
(***************************************************************************)
StatusMessage(statusCode) ==
    CASE statusCode \in {401, 403} -> "auth"
      [] statusCode = 402 -> "credit"
      [] statusCode = 429 -> "rate"
      [] statusCode \in {500, 502, 503, 504} -> "server"
      [] OTHER -> "generic"

handleErrorResponse(o) ==
    IF ResponseOk(o.status)
    THEN Return("none")
    ELSE LET errors == IF o.body = "errorsDoc" THEN <<"error1">> ELSE <<>>
         IN Throw(XApiClientError(StatusMessage(o.status), o.status, errors))

\* A search whose catch block rethrows the cause of a transport failure as
\* it is (a TypeError of fetch, a SyntaxError of response.json()).
searchRecentTweetsRethrowingCause(o) ==
    IF o.type = "abort"
    THEN Throw(XApiClientError("timeout", 0, <<>>))
    ELSE IF o.type = "network"
    THEN Throw([name |-> "TypeError", message |-> "fetch failed",
                statusCode |-> -1, errors |-> <<>>])
    ELSE LET h == handleErrorResponse(o)
         IN IF h.kind = "throw"
            THEN h
            ELSE IF o.body \in Payloads
            THEN Return(o.body)
            ELSE Throw([name |-> "SyntaxError", message |-> "bad json",
                        statusCode |-> -1, errors |-> <<>>])

(***************************************************************************)
(* searchRecentTweets, from the point where fetch() settles with o.        *)
(***************************************************************************)
searchRecentTweets(o) ==
    IF o.type = "abort"
    THEN Throw(XApiClientError("timeout", 0, <<>>))
    ELSE IF o.type = "network"
    THEN Throw(XApiClientError("failed", 0, <<>>))
    ELSE LET h == handleErrorResponse(o)
         IN IF h.kind = "throw"
            THEN h
            ELSE IF o.body \in Payloads
            THEN Return(o.body)
            ELSE Throw(XApiClientError("failed", 0, <<>>))

\* A retry loop that retries every 4xx and 5xx failure while retries remain.
CatchDecisionRetryAnyHttpError(statusCode, att, max) ==
    IF statusCode >= 400 /\ att < max THEN "retry" ELSE "throw"

\* A retry loop that sleeps after a server error even when no attempt remains.
CatchDecisionRetryAtLimit(statusCode, att, max) ==
    IF statusCode \in {401, 402, 403, 429}
    THEN "throw"
    ELSE IF statusCode >= 500 /\ statusCode < 600
    THEN "retry"
    ELSE "throw"

\* A retry loop that gives up on the first failure.
CatchDecisionNeverRetry(statusCode, att, max) == "throw"

(***************************************************************************)
(* The catch block of searchRecentTweetsWithRetry: rethrow or retry.       *)
(***************************************************************************)
NonRetryableStatuses == {401, 402, 403, 429}

CatchDecision(statusCode, att, max) ==
    IF statusCode \in NonRetryableStatuses
    THEN "throw"
    ELSE IF statusCode >= 500 /\ statusCode < 600 /\ att < max
    THEN "retry"
    ELSE "throw"

\* A loop head with the off-by-one condition `attempt < maxRetries`.
LoopHeadStrict(a) ==
    IF a < maxRetries
    THEN /\ cpc' = "inflight"
         /\ requests' = requests + 1
         /\ inflight' = inflight + 1
         /\ outcome' = outcome
    ELSE /\ cpc' = "raised"
         /\ outcome' = Throw(lastError)
         /\ UNCHANGED <<requests, inflight>>

(***************************************************************************)
(* The head of the for loop with counter value a: another request, or the  *)
(* `throw lastError!` after the loop.                                      *)
(***************************************************************************)
LoopHead(a) ==
    IF a <= maxRetries
    THEN /\ cpc' = "inflight"
         /\ requests' = requests + 1
         /\ inflight' = inflight + 1
         /\ outcome' = outcome
    ELSE /\ cpc' = "raised"
         /\ outcome' = Throw(lastError)
         /\ UNCHANGED <<requests, inflight>>

\* The call, up to the first await of fetch().
Call ==
    /\ cpc = "idle"
    /\ attempt' = 0
    /\ lastError' = NoError
    /\ LoopHead(0)
    /\ UNCHANGED <<maxRetries, sleeps, upstream, nonClientVars>>

\* fetch() settles with o: searchRecentTweets finishes, and the retry loop
\* returns, rethrows or starts the sleep.
Respond(o) ==
    /\ cpc = "inflight"
    /\ LET r == searchRecentTweets(o)
       IN /\ upstream' = Append(upstream, o)
          /\ inflight' = inflight - 1
          /\ IF r.kind = "return"
             THEN /\ cpc' = "returned"
                  /\ outcome' = r
                  /\ UNCHANGED <<lastError, sleeps>>
             ELSE /\ lastError' = r.error
                  /\ IF CatchDecision(r.error.statusCode, attempt, maxRetries) = "retry"
                     THEN /\ cpc' = "sleeping"
                          /\ sleeps' = sleeps + 1
                          /\ outcome' = outcome
                     ELSE /\ cpc' = "raised"
                          /\ outcome' = r
                          /\ sleeps' = sleeps
    /\ UNCHANGED <<maxRetries, attempt, requests, nonClientVars>>

\* The sleep timer fires: `continue`, attempt++, and the loop head.
Wake ==
    /\ cpc = "sleeping"
    /\ attempt' = attempt + 1
    /\ LoopHead(attempt + 1)
    /\ UNCHANGED <<maxRetries, lastError, sleeps, upstream, nonClientVars>>

(***************************************************************************)
(* Tweet processing (services/tweet-processor.ts).                         *)
(*                                                                         *)
(* A string is a sequence of characters.  A tweet's text is held as        *)
(* [prefix, fill, count, suffix], the string of `prefix`, then `count`     *)
(* times the character `fill`, then `suffix`; Chars gives its characters.  *)
(* A response is                                                           *)
(*   [hasData, data, hasUsers, users]: `data` and `includes.users` with    *)
(* a flag each for the optional field being present.  A tweet's id is its  *)
(* position in the response; created_at and retweet_count, which the       *)
(* pipeline only copies, take the id's value.                              *)
(***************************************************************************)
DUPLICATE_CHECK_LENGTH == 100

DEFAULT_DISPLAY_LIMIT == 10

Whitespace == {" ", "\t"}

Repeat(c, n) == [i \in 1..n |-> c]

\* The characters of a tweet's text.
Chars(text) == text.prefix \o Repeat(text.fill, text.count) \o text.suffix

Min(a, b) == IF a <= b THEN a ELSE b

\* String.prototype.slice(0, n), n >= 0
Slice(text, n) == SubSeq(text, 1, Min(n, Len(text)))

RECURSIVE TrimStart(_)
TrimStart(text) ==
    IF text # <<>> /\ Head(text) \in Whitespace
    THEN TrimStart(Tail(text))
    ELSE text

RECURSIVE TrimEnd(_)
TrimEnd(text) ==
    IF text # <<>> /\ text[Len(text)] \in Whitespace
    THEN TrimEnd(SubSeq(text, 1, Len(text) - 1))
    ELSE text

\* String.prototype.trim()
Trim(text) == TrimEnd(TrimStart(text))

\* A key cut one character too late.
DedupKeyOffByOne(text) == Trim(Slice(Chars(text), DUPLICATE_CHECK_LENGTH + 1))

\* tweet.text.slice(0, DUPLICATE_CHECK_LENGTH).trim()
DedupKey(text) == Trim(Slice(Chars(text), DUPLICATE_CHECK_LENGTH))

\* createUserMap: a later user with the same id replaces an earlier one.
createUserMap(users) ==
    [id \in {users[k].id : k \in 1..Len(users)} |->
        LET last == CHOOSE k \in 1..Len(users) :
                        /\ users[k].id = id
                        /\ \A j \in 1..Len(users) : users[j].id = id => j <= k
        IN users[last]]

\* A conversion that keeps a tweet without a known author under a placeholder.
convertToProcessedTweetPlaceholder(tweet, userMap) ==
    LET user == IF tweet.author_id \in DOMAIN userMap
                THEN userMap[tweet.author_id]
                ELSE [id |-> tweet.author_id, name |-> "unknown", username |-> "unknown"]
    IN <<[id |-> tweet.id,
          text |-> tweet.text,
          author |-> [name |-> user.name, username |-> user.username],
          created_at |-> tweet.created_at,
          likes |-> tweet.public_metrics.like_count,
          retweets |-> tweet.public_metrics.retweet_count,
          url |-> <<"https://x.com/", user.username, "/status/", tweet.id>>]>>

\* convertToProcessedTweet; null is the empty sequence, a tweet a sequence of one.
convertToProcessedTweet(tweet, userMap) ==
    IF tweet.author_id \notin DOMAIN userMap
    THEN <<>>
    ELSE LET user == userMap[tweet.author_id]
         IN <<[id |-> tweet.id,
               text |-> tweet.text,
               author |-> [name |-> user.name, username |-> user.username],
               created_at |-> tweet.created_at,
               likes |-> tweet.public_metrics.like_count,
               retweets |-> tweet.public_metrics.retweet_count,
               url |-> <<"https://x.com/", user.username, "/status/", tweet.id>>]>>

\* tweets.map(convertToProcessedTweet).filter(tweet !== null)
RECURSIVE ConvertAll(_, _)
ConvertAll(tweets, userMap) ==
    IF tweets = <<>>
    THEN <<>>
    ELSE convertToProcessedTweet(Head(tweets), userMap) \o ConvertAll(Tail(tweets), userMap)

\* A filter with a strict comparison.
filterByLikesStrict(tweets, min) == SelectSeq(tweets, LAMBDA t : t.likes > min)

filterByLikes(tweets, min) == SelectSeq(tweets, LAMBDA t : t.likes >= min)

RECURSIVE removeDuplicatesLoop(_, _, _)
removeDuplicatesLoop(rest, seen, deduplicated) ==
    IF rest = <<>>
    THEN deduplicated
    ELSE LET key == DedupKey(Head(rest).text)
         IN IF key \notin seen
            THEN removeDuplicatesLoop(Tail(rest), seen \cup {key},
                                      Append(deduplicated, Head(rest)))
            ELSE removeDuplicatesLoop(Tail(rest), seen, deduplicated)

removeDuplicates(tweets) == removeDuplicatesLoop(tweets, {}, <<>>)

\* The comparator (a, b) => b.likes - a.likes
CompareByLikes(a, b) == b.likes - a.likes

\* An insertion that puts a tweet before the tweets it ties with.
RECURSIVE InsertBeforeTies(_, _)
InsertBeforeTies(sorted, t) ==
    IF sorted = <<>>
    THEN <<t>>
    ELSE IF CompareByLikes(Head(sorted), t) < 0
    THEN <<Head(sorted)>> \o InsertBeforeTies(Tail(sorted), t)
    ELSE <<t>> \o sorted

\* Array.prototype.sort is stable: a tweet goes after every tweet the
\* comparator does not put behind it.
RECURSIVE InsertSorted(_, _)
InsertSorted(sorted, t) ==
    IF sorted = <<>>
    THEN <<t>>
    ELSE IF CompareByLikes(Head(sorted), t) <= 0
    THEN <<Head(sorted)>> \o InsertSorted(Tail(sorted), t)
    ELSE <<t>> \o sorted

RECURSIVE SortFrom(_, _)
SortFrom(sorted, rest) ==
    IF rest = <<>>
    THEN sorted
    ELSE SortFrom(InsertSorted(sorted, Head(rest)), Tail(rest))

\* [...tweets].sort((a, b) => b.likes - a.likes)
sortByLikes(tweets) == SortFrom(<<>>, tweets)

\* The displayLimit argument: omitted, or a number.
Omitted == [given |-> FALSE, value |-> 0]

Given(n) == [given |-> TRUE, value |-> n]

\* The default parameter value.
EffectiveLimit(limit) == IF limit.given THEN limit.value ELSE DEFAULT_DISPLAY_LIMIT

\* A pipeline that cuts to the limit without the default for an omitted one.
processTweetsNoDefault(resp, min, limit) ==
    LET tweets == IF resp.hasData THEN resp.data ELSE <<>>
        users == IF resp.hasUsers THEN resp.users ELSE <<>>
    IN IF Len(tweets) = 0
       THEN <<>>
       ELSE LET sorted == sortByLikes(removeDuplicates(filterByLikes(
                              ConvertAll(tweets, createUserMap(users)), min)))
            IN IF limit.given THEN Slice(sorted, limit.value) ELSE sorted

\* A pipeline that cuts to the limit before it sorts.
processTweetsLimitFirst(resp, min, limit) ==
    LET tweets == IF resp.hasData THEN resp.data ELSE <<>>
        users == IF resp.hasUsers THEN resp.users ELSE <<>>
    IN IF Len(tweets) = 0
       THEN <<>>
       ELSE sortByLikes(Slice(removeDuplicates(filterByLikes(
                ConvertAll(tweets, createUserMap(users)), min)), EffectiveLimit(limit)))

\* A pipeline that removes duplicates before it filters by likes.
processTweetsDedupFirst(resp, min, limit) ==
    LET tweets == IF resp.hasData THEN resp.data ELSE <<>>
        users == IF resp.hasUsers THEN resp.users ELSE <<>>
    IN IF Len(tweets) = 0
       THEN <<>>
       ELSE Slice(sortByLikes(filterByLikes(removeDuplicates(
                ConvertAll(tweets, createUserMap(users))), min)), EffectiveLimit(limit))

processTweets(resp, min, limit) ==
    LET tweets == IF resp.hasData THEN resp.data ELSE <<>>
        users == IF resp.hasUsers THEN resp.users ELSE <<>>
    IN IF Len(tweets) = 0
       THEN <<>>
       ELSE LET userMap == createUserMap(users)
                processedTweets == ConvertAll(tweets, userMap)
                filteredByLikes == filterByLikes(processedTweets, min)
                deduplicated == removeDuplicates(filteredByLikes)
                sorted == sortByLikes(deduplicated)
                limited == Slice(sorted, EffectiveLimit(limit))
            IN limited

\* A call that filters the response's own array in place.
ProcessFilteringInPlace ==
    /\ ppc = "ready"
    /\ output' = processTweets(response, minLikes, displayLimit)
    /\ ppc' = "done"
    /\ response' = [response EXCEPT !.data =
                        SelectSeq(response.data,
                                  LAMBDA t : t.public_metrics.like_count >= minLikes)]
    /\ UNCHANGED <<minLikes, displayLimit, nonProcessVars>>

\* One call of processTweets.
Process ==
    /\ ppc = "ready"
    /\ output' = processTweets(response, minLikes, displayLimit)
    /\ ppc' = "done"
    /\ UNCHANGED <<response, minLikes, displayLimit, nonProcessVars>>

(***************************************************************************)
(* Query construction (utils/query-builder.ts).                            *)
(*                                                                         *)
(* A keyword is [term, min_likes]: the term held like a tweet's text, and  *)
(* min_likes Omitted or Given.  The settings are [min_likes, max_results,  *)
(* lang].  Error messages are modelled by their fixed part:                *)
(*   "noKeywords"    キーワードが指定されていません                        *)
(*   "queryTooLong"  検索クエリが1024文字を超えています（n文字）。...      *)
(***************************************************************************)
QUERY_MAX_LENGTH == 1024

\* '-is:retweet'
BASE_CONDITIONS == <<"-", "i", "s", ":", "r", "e", "t", "w", "e", "e", "t">>

\* new Error(message); statusCode holds the number a message text carries,
\* -1 when it carries none.
Error(message, number) ==
    [name |-> "Error", message |-> message, statusCode |-> number, errors |-> <<>>]

QueryPending == [kind |-> "pending", queries |-> <<>>, error |-> NoError]

QueryReturn(queries) == [kind |-> "return", queries |-> queries, error |-> NoError]

QueryThrow(error) == [kind |-> "throw", queries |-> <<>>, error |-> error]

\* String.prototype.includes(c) for a single character c
Includes(text, c) == \E i \in 1..Len(text) : text[i] = c

\* Array.prototype.join(sep)
RECURSIVE Join(_, _)
Join(parts, sep) ==
    IF parts = <<>>
    THEN <<>>
    ELSE IF Len(parts) = 1
         THEN Head(parts)
         ELSE Head(parts) \o sep \o Join(Tail(parts), sep)

\* A quoting rule that looks for any whitespace character.
QuoteTermOnWhitespace(term) ==
    IF \E c \in Whitespace : Includes(term, c)
    THEN <<"\"">> \o term \o <<"\"">>
    ELSE term

\* k.term.includes(' ') ? `"${k.term}"` : k.term
QuoteTerm(term) ==
    IF Includes(term, " ")
    THEN <<"\"">> \o term \o <<"\"">>
    ELSE term

\* keywords.map(...)
KeywordTerms(kws) == [i \in 1..Len(kws) |-> QuoteTerm(Chars(kws[i].term))]

\* A query with the language clause before the retweet clause.
FullQueryLangFirst(kws, globalSettings) ==
    <<"(">> \o Join(KeywordTerms(kws), <<" ", "O", "R", " ">>) \o <<")">>
        \o <<" ">> \o <<"l", "a", "n", "g", ":">> \o globalSettings.lang
        \o <<" ">> \o BASE_CONDITIONS

\* fullQuery = `${keywordQuery} ${baseQuery}`
FullQuery(kws, globalSettings) ==
    LET langCondition == <<"l", "a", "n", "g", ":">> \o globalSettings.lang
        baseQuery == BASE_CONDITIONS \o <<" ">> \o langCondition
        keywordQuery ==
            <<"(">> \o Join(KeywordTerms(kws), <<" ", "O", "R", " ">>) \o <<")">>
    IN keywordQuery \o <<" ">> \o baseQuery

\* A builder that refuses a query of QUERY_MAX_LENGTH characters as well.
buildSearchQueriesRefusingLimit(kws, globalSettings) ==
    IF Len(kws) = 0
    THEN QueryThrow(Error("noKeywords", -1))
    ELSE LET fullQuery == FullQuery(kws, globalSettings)
         IN IF Len(fullQuery) >= QUERY_MAX_LENGTH
            THEN QueryThrow(Error("queryTooLong", Len(fullQuery)))
            ELSE QueryReturn(<<fullQuery>>)

\* A builder that answers an empty keyword list with an empty query list.
buildSearchQueriesEmptyList(kws, globalSettings) ==
    IF Len(kws) = 0
    THEN QueryReturn(<<>>)
    ELSE LET fullQuery == FullQuery(kws, globalSettings)
         IN IF Len(fullQuery) > QUERY_MAX_LENGTH
            THEN QueryThrow(Error("queryTooLong", Len(fullQuery)))
            ELSE QueryReturn(<<fullQuery>>)

buildSearchQueries(kws, globalSettings) ==
    IF Len(kws) = 0
    THEN QueryThrow(Error("noKeywords", -1))
    ELSE LET fullQuery == FullQuery(kws, globalSettings)
         IN IF Len(fullQuery) > QUERY_MAX_LENGTH
            THEN QueryThrow(Error("queryTooLong", Len(fullQuery)))
            ELSE QueryReturn(<<fullQuery>>)

\* One call of buildSearchQueries.
Build ==
    /\ qpc = "ready"
    /\ keywordTerms' = IF Len(keywords) = 0 THEN <<>> ELSE KeywordTerms(keywords)
    /\ built' = buildSearchQueries(keywords, settings)
    /\ qpc' = "done"
    /\ UNCHANGED <<keywords, settings, nonQueryVars>>

(***************************************************************************)
(* Webhook delivery (services/slack-notifier.ts).                          *)
(*                                                                         *)
(* Error messages are modelled by their fixed part:                        *)
(*   "slackApi"      Slack API エラー: <status> <statusText>               *)
(*   "slackTimeout"  Slack 通知がタイムアウトしました                      *)
(*   "noWebhook"     SLACK_WEBHOOK_URL が設定されていません                *)
(* A rejection of fetch() other than the abort is a TypeError, rethrown    *)
(* as it is.                                                               *)
(***************************************************************************)
MAX_RETRIES == 2

WebhookStatuses == {200, 204, 400, 403, 404, 410, 429, 500, 502, 503}

NoPost == [type |-> "none", status |-> 0]

\* What the POST's fetch() can settle with: a response, an abort by the 15 s
\* timer, or any other rejection.
WebhookOutcomes ==
    {[type |-> "response", status |-> st] : st \in WebhookStatuses}
    \cup {[type |-> "abort", status |-> 0], [type |-> "network", status |-> 0]}

FetchRejection ==
    [name |-> "TypeError", message |-> "fetchFailed", statusCode |-> -1, errors |-> <<>>]

\* send, from the point where fetch() settles with o.
send(o) ==
    IF o.type = "response"
    THEN IF ResponseOk(o.status)
         THEN Return("void")
         ELSE Throw(Error("slackApi", o.status))
    ELSE IF o.type = "abort"
         THEN Throw(Error("slackTimeout", -1))
         ELSE Throw(FetchRejection)

\* A catch block that retries once more than `retries` allows.
sendWithRetryCatchOnceMore(r) == IF r >= 0 THEN "retry" ELSE "throw"

\* The catch block of sendWithRetry: retry while retries > 0, else rethrow.
sendWithRetryCatch(r) == IF r > 0 THEN "retry" ELSE "throw"

\* A catch block that passes the error on.
sendErrorNotificationRethrow(error) == Throw(error)

\* The catch block of sendErrorNotification: log, and return.
sendErrorNotificationCatch(error) == Return("void")

\* sendDailySummary, up to the first POST of sendWithRetry(payload).
sendDailySummary ==
    /\ npc = "idle"
    /\ nmethod = "summary"
    /\ retries' = MAX_RETRIES
    /\ posts' = [posts EXCEPT !.summary = @ + 1]
    /\ npc' = "posting"
    /\ UNCHANGED <<nmethod, nsleeps, lastPost, nresult, nonNotifyVars>>

\* sendErrorNotification, up to the first POST of sendWithRetry(payload).
sendErrorNotification ==
    /\ npc = "idle"
    /\ nmethod = "error"
    /\ retries' = MAX_RETRIES
    /\ posts' = [posts EXCEPT !.error = @ + 1]
    /\ npc' = "posting"
    /\ UNCHANGED <<nmethod, nsleeps, lastPost, nresult, nonNotifyVars>>

\* The POST's fetch() settles with o: send finishes, and sendWithRetry returns,
\* starts the sleep, or rethrows to the method that called it.
Settle(o) ==
    /\ npc = "posting"
    /\ lastPost' = o
    /\ LET r == send(o)
       IN IF r.kind = "return"
          THEN /\ npc' = "done"
               /\ nresult' = r
               /\ nsleeps' = nsleeps
          ELSE IF sendWithRetryCatch(retries) = "retry"
               THEN /\ npc' = "sleeping"
                    /\ nsleeps' = nsleeps + 1
                    /\ nresult' = nresult
               ELSE /\ npc' = "done"
                    /\ nresult' = IF nmethod = "error"
                                  THEN sendErrorNotificationCatch(r.error)
                                  ELSE r
                    /\ nsleeps' = nsleeps
    /\ UNCHANGED <<nmethod, retries, posts, nonNotifyVars>>

\* The sleep timer fires: sendWithRetry(payload, retries - 1) and its POST.
Resume ==
    /\ npc = "sleeping"
    /\ retries' = retries - 1
    /\ posts' = [posts EXCEPT ![nmethod] = @ + 1]
    /\ npc' = "posting"
    /\ UNCHANGED <<nmethod, nsleeps, lastPost, nresult, nonNotifyVars>>

(***************************************************************************)
(* The inputs of processTweets.                                            *)
(***************************************************************************)
MaxTweets == 2

MaxLikes == 2

MaxBulk == 11

Text(prefix, fill, count, suffix) ==
    [prefix |-> prefix, fill |-> fill, count |-> count, suffix |-> suffix]

\* Two texts that differ only after the first DUPLICATE_CHECK_LENGTH characters.
TextLongB == Text(<<>>, "a", DUPLICATE_CHECK_LENGTH, <<"b">>)

TextLongC == Text(<<>>, "a", DUPLICATE_CHECK_LENGTH, <<"c">>)

\* A text whose first DUPLICATE_CHECK_LENGTH characters begin and end with
\* whitespace, and the text those characters trim to.
TextSpaced == Text(<<" ">>, "a", DUPLICATE_CHECK_LENGTH - 2, <<"\t", "d">>)

TextExact == Text(<<>>, "a", DUPLICATE_CHECK_LENGTH - 2, <<>>)

User1 == [id |-> "u1", name |-> "Alice", username |-> "alice"]

User2 == [id |-> "u2", name |-> "Bob", username |-> "bob"]

\* The text and author of a tweet.
TweetKinds ==
    {[text |-> t, author_id |-> "u1"] :
        t \in {TextLongB, TextLongC, TextSpaced, TextExact}}
    \cup {[text |-> t, author_id |-> "u2"] : t \in {TextLongB}}

Tweet(i, kind, likes) ==
    [id |-> i, text |-> kind.text, author_id |-> kind.author_id, created_at |-> i,
     public_metrics |-> [like_count |-> likes, retweet_count |-> i]]

\* Every sequence of at most MaxTweets tweets.
SmallData ==
    UNION {{[i \in 1..n |-> Tweet(i, kinds[i], likes[i])] :
                kinds \in [1..n -> TweetKinds], likes \in [1..n -> 0..MaxLikes]} :
           n \in 0..MaxTweets}

IncludesChoices ==
    {[hasUsers |-> FALSE, users |-> <<>>],
     [hasUsers |-> TRUE, users |-> <<User1>>],
     [hasUsers |-> TRUE, users |-> <<User1, User2>>]}

SmallResponses ==
    {[hasData |-> TRUE, data |-> d, hasUsers |-> inc.hasUsers, users |-> inc.users] :
        d \in SmallData, inc \in IncludesChoices}
    \cup {[hasData |-> FALSE, data |-> <<>>, hasUsers |-> inc.hasUsers, users |-> inc.users] :
        inc \in IncludesChoices}

\* n tweets with n different deduplication keys, all by User1.
BulkData(n) ==
    [i \in 1..n |->
        Tweet(i, [text |-> Text(<<>>, "k", i, <<>>), author_id |-> "u1"], i % (MaxLikes + 1))]

BulkResponses ==
    {[hasData |-> TRUE, data |-> BulkData(n), hasUsers |-> TRUE, users |-> <<User1>>] :
        n \in (DEFAULT_DISPLAY_LIMIT - 1)..MaxBulk}

\* The threshold: none, and one that tweets fall below, meet and exceed.
MinLikesChoices == {0, 1}

EmptyResponse == [hasData |-> FALSE, data |-> <<>>, hasUsers |-> FALSE, users |-> <<>>]

(***************************************************************************)
(* The inputs of buildSearchQueries.                                       *)
(***************************************************************************)
MaxKeywords == 2

LangJa == <<"j", "a">>

LangUnd == <<"u", "n", "d">>

\* The length of the query around a single term, under lang:ja.
FrameLength == Len(<<"(", ")", " ">> \o BASE_CONDITIONS \o <<" ", "l", "a", "n", "g", ":">> \o LangJa)

TermRails == Text(<<"#", "R", "a", "i", "l", "s">>, "x", 0, <<>>)

\* A term with a space, and a term whose only whitespace is a tab.
TermSpaced == Text(<<"H", "o", "n", "o", " ", "F", "W">>, "x", 0, <<>>)

TermTabbed == Text(<<"a", "\t", "b">>, "x", 0, <<>>)

TermLong(n) == Text(<<>>, "x", n, <<>>)

\* Alone under lang:ja, a term of QUERY_MAX_LENGTH - FrameLength characters
\* gives a query of exactly QUERY_MAX_LENGTH characters; so does the term ten
\* characters shorter when ' OR #Rails' follows it.
QueryTerms ==
    {TermRails, TermSpaced, TermTabbed,
     TermLong(QUERY_MAX_LENGTH - FrameLength - 10),
     TermLong(QUERY_MAX_LENGTH - FrameLength),
     TermLong(QUERY_MAX_LENGTH - FrameLength + 1)}

Keyword(term, min) == [term |-> term, min_likes |-> min]

KeywordLists ==
    UNION {[1..n -> {Keyword(t, Omitted) : t \in QueryTerms}] : n \in 0..MaxKeywords}

SettingsChoices ==
    {[min_likes |-> m, max_results |-> 10, lang |-> l] :
        m \in MinLikesChoices, l \in {LangJa, LangUnd}}

NoSettings == [min_likes |-> 0, max_results |-> 10, lang |-> <<>>]

QueryIdle ==
    /\ qpc = "unused"
    /\ keywords = <<>>
    /\ settings = NoSettings
    /\ keywordTerms = <<>>
    /\ built = QueryPending

NoEnv == [X_BEARER_TOKEN |-> "", SLACK_WEBHOOK_URL |-> ""]

NoConfig == [version |-> 1, global_settings |-> NoSettings, keywords |-> <<>>]

NoSummary ==
    [keywords |-> <<>>, tweets |-> <<>>,
     stats |-> [fetched |-> 0, filtered |-> 0, displayed |-> 0]]

\* An optional string: undefined, or a string.
Absent == [given |-> FALSE, value |-> ""]

Present(str) == [given |-> TRUE, value |-> str]

TriggerIdle ==
    /\ tpc = "unused"
    /\ manualTriggerKey = Absent
    /\ queryKey = Absent
    /\ httpStatus = 0

JobIdle ==
    /\ jpc = "unused"
    /\ env = NoEnv
    /\ config = NoConfig
    /\ fetchedCount = 0
    /\ summary = NoSummary
    /\ jobError = NoError
    /\ notified = 0
    /\ jobResult = Pending

NotifyIdle ==
    /\ npc = "unused"
    /\ nmethod = "none"
    /\ retries = MAX_RETRIES
    /\ posts = [summary |-> 0, error |-> 0]
    /\ nsleeps = 0
    /\ lastPost = NoPost
    /\ nresult = Pending

ProcessIdle ==
    /\ ppc = "idle"
    /\ response = EmptyResponse
    /\ minLikes = 0
    /\ displayLimit = Omitted
    /\ output = <<>>

ClientIdle ==
    /\ cpc = "unused"
    /\ maxRetries = 0
    /\ attempt = 0
    /\ lastError = NoError
    /\ requests = 0
    /\ inflight = 0
    /\ sleeps = 0
    /\ upstream = <<>>
    /\ outcome = Pending

InitProcess ==
    /\ ppc = "ready"
    /\ response \in SmallResponses \cup BulkResponses
    /\ minLikes \in MinLikesChoices
    /\ displayLimit \in {Omitted} \cup {Given(n) : n \in 1..MaxTweets}
    /\ output = <<>>
    /\ ClientIdle
    /\ QueryIdle
    /\ NotifyIdle
    /\ JobIdle
    /\ TriggerIdle

NextProcess == Process

SpecProcess == InitProcess /\ [][NextProcess]_vars

InitClient ==
    /\ cpc = "idle"
    /\ maxRetries \in 0..MaxRetriesBound
    /\ attempt = 0
    /\ lastError = NoError
    /\ requests = 0
    /\ inflight = 0
    /\ sleeps = 0
    /\ upstream = <<>>
    /\ outcome = Pending
    /\ ProcessIdle
    /\ QueryIdle
    /\ NotifyIdle
    /\ JobIdle
    /\ TriggerIdle

NextClient ==
    \/ Call
    \/ \E o \in FetchOutcomes : Respond(o)
    \/ Wake

SpecClient == InitClient /\ [][NextClient]_vars

\* fetch() always settles (the abort timer bounds it) and timers fire.
FairSpecClient == SpecClient /\ WF_vars(NextClient)

InitQuery ==
    /\ qpc = "ready"
    /\ keywords \in KeywordLists
    /\ settings \in SettingsChoices
    /\ keywordTerms = <<>>
    /\ built = QueryPending
    /\ ClientIdle
    /\ ProcessIdle
    /\ NotifyIdle
    /\ JobIdle
    /\ TriggerIdle

NextQuery == Build

SpecQuery == InitQuery /\ [][NextQuery]_vars

\* A constructed notifier and the method called on it.
InitNotify ==
    /\ npc = "idle"
    /\ nmethod \in {"summary", "error"}
    /\ retries = MAX_RETRIES
    /\ posts = [summary |-> 0, error |-> 0]
    /\ nsleeps = 0
    /\ lastPost = NoPost
    /\ nresult = Pending
    /\ ClientIdle
    /\ ProcessIdle
    /\ QueryIdle
    /\ JobIdle
    /\ TriggerIdle

NextNotify ==
    \/ sendDailySummary
    \/ sendErrorNotification
    \/ \E o \in WebhookOutcomes : Settle(o)
    \/ Resume

SpecNotify == InitNotify /\ [][NextNotify]_vars

\* The POST's fetch() always settles (the abort timer bounds it) and the
\* sleep timer fires.
FairSpecNotify == SpecNotify /\ WF_vars(NextNotify)

(***************************************************************************)
(* The daily job (executeDailyJob in index.ts).                            *)
(*                                                                         *)
(* The job calls the components above in turn: its steps hand each one its *)
(* arguments and take up its result, and the component's own actions run   *)
(* in between.  Error messages are modelled by their fixed part:           *)
(*   "badVersion"         設定ファイルのversionが不正です                  *)
(*   "badMinLikes"        global_settings.min_likes は0以上の整数...       *)
(*   "badMaxResults"      global_settings.max_results は10〜100の範囲...   *)
(*   "badLang"            global_settings.lang は空でない文字列...         *)
(*   "noKeywordArray"     キーワード配列が空、または配列ではありません     *)
(*   "badTerm"            keywords[i].term は空でない文字列...             *)
(*   "badKeywordMinLikes" keywords[i].min_likes は0以上の整数...           *)
(*   "noToken"            X_BEARER_TOKEN が設定されていません              *)
(* The summary's date, read from the clock, is left out.                   *)
(***************************************************************************)
\* The default value of searchRecentTweetsWithRetry's maxRetries parameter.
DefaultMaxRetries == 1

\* validateKeywordEntry for the keywords from index i on: the first failure.
RECURSIVE validateKeywordEntries(_, _)
validateKeywordEntries(kws, i) ==
    IF i > Len(kws)
    THEN "ok"
    ELSE IF Len(Trim(Chars(kws[i].term))) = 0
         THEN "badTerm"
         ELSE IF kws[i].min_likes.given /\ kws[i].min_likes.value < 0
              THEN "badKeywordMinLikes"
              ELSE validateKeywordEntries(kws, i + 1)

validateGlobalSettings(gs) ==
    IF gs.min_likes < 0
    THEN "badMinLikes"
    ELSE IF gs.max_results < 10 \/ gs.max_results > 100
         THEN "badMaxResults"
         ELSE IF Len(gs.lang) = 0 THEN "badLang" ELSE "ok"

\* validateConfig: "ok", or the message of the error it throws.
validateConfig(cfg) ==
    IF cfg.version < 1
    THEN "badVersion"
    ELSE IF validateGlobalSettings(cfg.global_settings) # "ok"
         THEN validateGlobalSettings(cfg.global_settings)
         ELSE IF Len(cfg.keywords) = 0
              THEN "noKeywordArray"
              ELSE validateKeywordEntries(cfg.keywords, 1)

\* The search response a payload parses to, and its meta.result_count.
PayloadResponse(payload) ==
    IF payload = "payload1"
    THEN [hasData |-> TRUE,
          data |-> <<Tweet(1, [text |-> TextLongB, author_id |-> "u1"], 2),
                     Tweet(2, [text |-> TextLongC, author_id |-> "u1"], 1),
                     Tweet(3, [text |-> TextExact, author_id |-> "u1"], 0),
                     Tweet(4, [text |-> TextSpaced, author_id |-> "u2"], 2)>>,
          hasUsers |-> TRUE, users |-> <<User1>>]
    ELSE [hasData |-> FALSE, data |-> <<>>, hasUsers |-> FALSE, users |-> <<>>]

ResultCount(payload) == IF payload = "payload1" THEN 4 ELSE 0

buildNotificationSummary(tweets, kws, fetched, filtered) ==
    [keywords |-> kws,
     tweets |-> [i \in 1..Len(tweets) |->
                    [id |-> tweets[i].id,
                     text |-> tweets[i].text,
                     author |-> tweets[i].author.name,
                     username |-> tweets[i].author.username,
                     likes |-> tweets[i].likes,
                     retweets |-> tweets[i].retweets,
                     url |-> tweets[i].url]],
     stats |-> [fetched |-> fetched, filtered |-> filtered, displayed |-> Len(tweets)]]

\* A job that ends normally once it has handled its error.
JobRethrowSwallowed(error) == Return("void")

\* `throw error` at the end of the catch block.
JobRethrow(error) == Throw(error)

\* The catch block, entered with `error`: with a webhook URL it constructs a
\* notifier and calls sendErrorNotification, without one it rethrows at once.
JobCatch(error) ==
    /\ jobError' = error
    /\ IF env.SLACK_WEBHOOK_URL # ""
       THEN /\ jpc' = "notify"
            /\ notified' = notified + 1
            /\ npc' = "idle"
            /\ nmethod' = "error"
            /\ retries' = MAX_RETRIES
            /\ lastPost' = NoPost
            /\ nresult' = Pending
            /\ UNCHANGED <<posts, nsleeps, jobResult>>
       ELSE /\ jpc' = "failed"
            /\ jobResult' = JobRethrow(error)
            /\ UNCHANGED <<notified, notifyVars>>

\* 1. loadConfig, and the arguments of buildSearchQueries.
JobLoadConfig ==
    /\ jpc = "start"
    /\ IF validateConfig(config) = "ok"
       THEN /\ jpc' = "build"
            /\ qpc' = "ready"
            /\ keywords' = config.keywords
            /\ settings' = config.global_settings
            /\ UNCHANGED <<keywordTerms, built, jobError, notified, jobResult, notifyVars>>
       ELSE /\ JobCatch(Error(validateConfig(config), -1))
            /\ UNCHANGED queryVars
    /\ UNCHANGED <<triggerVars, env, config, fetchedCount, summary, clientVars, processVars>>

\* A job that constructs the notifier, and so detects an empty webhook URL,
\* before it searches.
JobStartSearchCheckingWebhookFirst ==
    /\ jpc = "build"
    /\ qpc = "done"
    /\ IF built.kind = "throw"
       THEN /\ JobCatch(built.error)
            /\ UNCHANGED clientVars
       ELSE IF env.X_BEARER_TOKEN = ""
            THEN /\ JobCatch(Error("noToken", -1))
                 /\ UNCHANGED clientVars
            ELSE IF env.SLACK_WEBHOOK_URL = ""
                 THEN /\ JobCatch(Error("noWebhook", -1))
                      /\ UNCHANGED clientVars
                 ELSE /\ jpc' = "search"
                      /\ cpc' = "idle"
                      /\ maxRetries' = DefaultMaxRetries
                      /\ UNCHANGED <<attempt, lastError, requests, inflight, sleeps,
                                     upstream, outcome>>
                      /\ UNCHANGED <<jobError, notified, jobResult, notifyVars>>
    /\ UNCHANGED <<triggerVars, env, config, fetchedCount, summary, processVars, queryVars>>

\* 2.-4. The query built, new XApiClient(env.X_BEARER_TOKEN), and the call of
\* searchRecentTweetsWithRetry with its default maxRetries.
JobStartSearch ==
    /\ jpc = "build"
    /\ qpc = "done"
    /\ IF built.kind = "throw"
       THEN /\ JobCatch(built.error)
            /\ UNCHANGED clientVars
       ELSE IF env.X_BEARER_TOKEN = ""
            THEN /\ JobCatch(Error("noToken", -1))
                 /\ UNCHANGED clientVars
            ELSE /\ jpc' = "search"
                 /\ cpc' = "idle"
                 /\ maxRetries' = DefaultMaxRetries
                 /\ UNCHANGED <<attempt, lastError, requests, inflight, sleeps,
                                upstream, outcome>>
                 /\ UNCHANGED <<jobError, notified, jobResult, notifyVars>>
    /\ UNCHANGED <<triggerVars, env, config, fetchedCount, summary, processVars, queryVars>>

\* getMinLikes (config.ts): the keyword's own min_likes when it is defined,
\* 0 included, else the global one.
getMinLikes(keyword, globalSettings) ==
    IF keyword.min_likes.given
    THEN keyword.min_likes.value
    ELSE globalSettings.min_likes

\* A job that filters with the min_likes in force for the first keyword.
JobProcessTweetsWithKeywordMinLikes ==
    /\ jpc = "search"
    /\ cpc \in {"returned", "raised"}
    /\ IF outcome.kind = "throw"
       THEN /\ JobCatch(outcome.error)
            /\ UNCHANGED <<fetchedCount, processVars>>
       ELSE /\ jpc' = "process"
            /\ fetchedCount' = ResultCount(outcome.data)
            /\ ppc' = "ready"
            /\ response' = PayloadResponse(outcome.data)
            /\ minLikes' = getMinLikes(config.keywords[1], config.global_settings)
            /\ displayLimit' = Omitted
            /\ output' = <<>>
            /\ UNCHANGED <<jobError, notified, jobResult, notifyVars>>
    /\ UNCHANGED <<triggerVars, env, config, summary, clientVars, queryVars>>

\* A job that goes on with an empty response when the search has failed.
JobProcessTweetsIgnoringFailure ==
    /\ jpc = "search"
    /\ cpc \in {"returned", "raised"}
    /\ jpc' = "process"
    /\ fetchedCount' = IF outcome.kind = "throw" THEN 0 ELSE ResultCount(outcome.data)
    /\ ppc' = "ready"
    /\ response' = IF outcome.kind = "throw"
                   THEN PayloadResponse("payload2")
                   ELSE PayloadResponse(outcome.data)
    /\ minLikes' = config.global_settings.min_likes
    /\ displayLimit' = Omitted
    /\ output' = <<>>
    /\ UNCHANGED <<jobError, notified, jobResult, notifyVars>>
    /\ UNCHANGED <<triggerVars, env, config, summary, clientVars, queryVars>>

\* The search settled: fetchedCount, and the arguments of processTweets.
JobProcessTweets ==
    /\ jpc = "search"
    /\ cpc \in {"returned", "raised"}
    /\ IF outcome.kind = "throw"
       THEN /\ JobCatch(outcome.error)
            /\ UNCHANGED <<fetchedCount, processVars>>
       ELSE /\ jpc' = "process"
            /\ fetchedCount' = ResultCount(outcome.data)
            /\ ppc' = "ready"
            /\ response' = PayloadResponse(outcome.data)
            /\ minLikes' = config.global_settings.min_likes
            /\ displayLimit' = Omitted
            /\ output' = <<>>
            /\ UNCHANGED <<jobError, notified, jobResult, notifyVars>>
    /\ UNCHANGED <<triggerVars, env, config, summary, clientVars, queryVars>>

\* 6.-7. The summary built, new SlackNotifier(env.SLACK_WEBHOOK_URL), and the
\* call of sendDailySummary.
JobSendSummary ==
    /\ jpc = "process"
    /\ ppc = "done"
    /\ summary' = buildNotificationSummary(
                      output, [i \in 1..Len(config.keywords) |-> config.keywords[i].term],
                      fetchedCount, Len(output))
    /\ IF env.SLACK_WEBHOOK_URL = ""
       THEN JobCatch(Error("noWebhook", -1))
       ELSE /\ jpc' = "send"
            /\ npc' = "idle"
            /\ nmethod' = "summary"
            /\ retries' = MAX_RETRIES
            /\ lastPost' = NoPost
            /\ nresult' = Pending
            /\ UNCHANGED <<posts, nsleeps, jobError, notified, jobResult>>
    /\ UNCHANGED <<triggerVars, env, config, fetchedCount, clientVars, processVars, queryVars>>

\* A job that rethrows a failed delivery of the summary without notifying.
JobFinishWithoutNotification ==
    /\ jpc = "send"
    /\ npc = "done"
    /\ IF nresult.kind = "throw"
       THEN /\ jpc' = "failed"
            /\ jobError' = nresult.error
            /\ jobResult' = Throw(nresult.error)
            /\ UNCHANGED <<notified, notifyVars>>
       ELSE /\ jpc' = "completed"
            /\ jobResult' = Return("void")
            /\ UNCHANGED <<jobError, notified, notifyVars>>
    /\ UNCHANGED <<triggerVars, env, config, fetchedCount, summary, clientVars, processVars, queryVars>>

\* sendDailySummary settled: the job is complete, or the catch block runs.
JobFinish ==
    /\ jpc = "send"
    /\ npc = "done"
    /\ IF nresult.kind = "throw"
       THEN JobCatch(nresult.error)
       ELSE /\ jpc' = "completed"
            /\ jobResult' = Return("void")
            /\ UNCHANGED <<jobError, notified, notifyVars>>
    /\ UNCHANGED <<triggerVars, env, config, fetchedCount, summary, clientVars, processVars, queryVars>>

\* sendErrorNotification settled, by a return or by a throw the inner catch
\* takes: `throw error`.
JobRethrowAfterNotify ==
    /\ jpc = "notify"
    /\ npc = "done"
    /\ jpc' = "failed"
    /\ jobResult' = JobRethrow(jobError)
    /\ UNCHANGED <<triggerVars, env, config, fetchedCount, summary, jobError, notified>>
    /\ UNCHANGED <<clientVars, processVars, queryVars, notifyVars>>

(***************************************************************************)
(* The inputs of executeDailyJob.                                          *)
(***************************************************************************)
Envs ==
    {[X_BEARER_TOKEN |-> t, SLACK_WEBHOOK_URL |-> u] :
        t \in {"", "token"}, u \in {"", "https://hooks.slack.com/services/T/B/x"}}

Config(min, kws) ==
    [version |-> 1,
     global_settings |-> [min_likes |-> min, max_results |-> 10, lang |-> LangJa],
     keywords |-> kws]

\* Two valid files, one with a keyword min_likes of its own; a file whose
\* query is too long; and a file without keywords.
JobConfigs ==
    {Config(1, <<Keyword(TermRails, Given(0)), Keyword(TermSpaced, Omitted)>>),
     Config(0, <<Keyword(TermRails, Omitted)>>),
     Config(1, <<Keyword(TermLong(QUERY_MAX_LENGTH - FrameLength + 1), Omitted)>>),
     Config(1, <<>>)}

InitJob ==
    /\ jpc = "start"
    /\ env \in Envs
    /\ config \in JobConfigs
    /\ fetchedCount = 0
    /\ summary = NoSummary
    /\ jobError = NoError
    /\ notified = 0
    /\ jobResult = Pending
    /\ ClientIdle
    /\ ProcessIdle
    /\ QueryIdle
    /\ NotifyIdle
    /\ TriggerIdle

NextJob ==
    \/ JobLoadConfig
    \/ Build
    \/ JobStartSearch
    \/ Call
    \/ \E o \in FetchOutcomes : Respond(o)
    \/ Wake
    \/ JobProcessTweets
    \/ Process
    \/ JobSendSummary
    \/ sendDailySummary
    \/ sendErrorNotification
    \/ \E o \in WebhookOutcomes : Settle(o)
    \/ Resume
    \/ JobFinish
    \/ JobRethrowAfterNotify

SpecJob == InitJob /\ [][NextJob]_vars

\* Every awaited fetch() settles (an abort timer bounds each), every sleep
\* timer fires and the job's own steps run: weak fairness of every action.
\* The fairness of Process is written with its enabling condition, the guard
\* ppc = "ready", in place of ENABLED <<Process>>_vars.
FairSpecJob ==
    /\ SpecJob
    /\ WF_vars(\/ JobLoadConfig
               \/ Build
               \/ JobStartSearch
               \/ Call
               \/ \E o \in FetchOutcomes : Respond(o)
               \/ Wake
               \/ JobProcessTweets
               \/ JobSendSummary
               \/ sendDailySummary
               \/ sendErrorNotification
               \/ \E o \in WebhookOutcomes : Settle(o)
               \/ Resume
               \/ JobFinish
               \/ JobRethrowAfterNotify)
    /\ ([]<>(ppc # "ready") \/ []<><<Process>>_vars)

(***************************************************************************)
(* The manual trigger (app.get('/trigger') in index.ts).                   *)
(***************************************************************************)
\* !value for an optional string: undefined and '' are falsy.
Falsy(opt) == ~opt.given \/ opt.value = ""

\* a !== b for optional strings
StrictNotEqual(a, b) == a.given # b.given \/ (a.given /\ a.value # b.value)

\* A check that only compares the two keys.
AuthFailedComparingOnly(secret, key) == StrictNotEqual(key, secret)

\* !env.MANUAL_TRIGGER_KEY || queryKey !== env.MANUAL_TRIGGER_KEY
AuthFailed(secret, key) == Falsy(secret) \/ StrictNotEqual(key, secret)

\* The authentication check: 401, or the call of executeDailyJob(env).
TriggerAuth ==
    /\ tpc = "received"
    /\ IF AuthFailed(manualTriggerKey, queryKey)
       THEN /\ httpStatus' = 401
            /\ tpc' = "answered"
            /\ jpc' = jpc
       ELSE /\ httpStatus' = httpStatus
            /\ tpc' = "running"
            /\ jpc' = "start"
    /\ UNCHANGED <<manualTriggerKey, queryKey, env, config, fetchedCount, summary,
                   jobError, notified, jobResult>>
    /\ UNCHANGED <<clientVars, processVars, queryVars, notifyVars>>

\* executeDailyJob settled: 200 when it returned, 500 when it threw.
TriggerAnswer ==
    /\ tpc = "running"
    /\ jpc \in {"completed", "failed"}
    /\ httpStatus' = IF jobResult.kind = "throw" THEN 500 ELSE 200
    /\ tpc' = "answered"
    /\ UNCHANGED <<manualTriggerKey, queryKey, jobVars>>
    /\ UNCHANGED <<clientVars, processVars, queryVars, notifyVars>>

\* The secret: not set, set to the empty string, or set.  The key of the
\* request: missing, empty, the secret, or another string.
SecretChoices == {Absent, Present(""), Present("valid-key")}

KeyChoices == {Absent, Present(""), Present("valid-key"), Present("wrong-key")}

InitTrigger ==
    /\ tpc = "received"
    /\ manualTriggerKey \in SecretChoices
    /\ queryKey \in KeyChoices
    /\ httpStatus = 0
    /\ jpc = "unused"
    /\ env \in Envs
    /\ config \in JobConfigs
    /\ fetchedCount = 0
    /\ summary = NoSummary
    /\ jobError = NoError
    /\ notified = 0
    /\ jobResult = Pending
    /\ ClientIdle
    /\ ProcessIdle
    /\ QueryIdle
    /\ NotifyIdle

NextTrigger ==
    \/ TriggerAuth
    \/ NextJob
    \/ TriggerAnswer

SpecTrigger == InitTrigger /\ [][NextTrigger]_vars

(***************************************************************************)
(* Properties of searchRecentTweetsWithRetry (under SpecClient).           *)
(***************************************************************************)
Terminated == cpc \in {"returned", "raised"}

\* The first n settled requests all failed with an HTTP status in S.
AllFailedWith(n, S) ==
    \A i \in 1..n : upstream[i].type = "response" /\ upstream[i].status \in S

\* The last settled request failed with an HTTP status in S.
LastFailedWith(S) ==
    /\ Len(upstream) >= 1
    /\ upstream[Len(upstream)].type = "response"
    /\ upstream[Len(upstream)].status \in S

Succeeded(o) == o.type = "response" /\ ResponseOk(o.status) /\ o.body \in Payloads

\* The call threw the error of the last settled request, right after it:
\* no sleep and no request followed.
RaisedAtLast ==
    /\ cpc = "raised"
    /\ outcome.kind = "throw"
    /\ outcome.error = lastError
    /\ outcome.error.statusCode = upstream[Len(upstream)].status
    /\ requests = Len(upstream)
    /\ inflight = 0
    /\ sleeps = Len(upstream) - 1

\* The call goes on after the last settled request: it sleeps, or the next
\* request is already out.
RetriedAtLast ==
    \/ cpc = "sleeping" /\ requests = Len(upstream) /\ sleeps = Len(upstream)
    \/ cpc = "inflight" /\ requests = Len(upstream) + 1 /\ sleeps = Len(upstream)

\* C1: while the first j <= maxRetries attempts each fail with a status in
\* 500..504 the call goes on to attempt j+1, and when attempt j+1 then returns
\* a 2xx payload the call returns that payload with exactly j+1 requests
\* issued, none in flight and none issued afterwards.
C1_RetryThenSuccess ==
    LET n == Len(upstream)
    IN /\ (cpc # "idle" /\ n <= maxRetries /\ AllFailedWith(n, 500..504))
            => (IF n = 0 THEN cpc = "inflight" /\ requests = 1 ELSE RetriedAtLast)
       /\ (n >= 1 /\ AllFailedWith(n - 1, 500..504) /\ Succeeded(upstream[n]))
            => /\ cpc = "returned"
               /\ outcome = Return(upstream[n].body)
               /\ requests = n
               /\ inflight = 0

C1_Witness ==
    /\ cpc = "returned"
    /\ Len(upstream) = maxRetries + 1
    /\ maxRetries >= 1
    /\ AllFailedWith(maxRetries, 500..504)
    /\ requests = maxRetries + 1

\* C2: whenever an attempt, the first or a later one, fails with 401, 402, 403
\* or 429, the call throws that error at once: no sleep and no further request,
\* whatever retries remain.
C2_NonRetryableRaisedImmediately ==
    LastFailedWith(NonRetryableStatuses) => RaisedAtLast

C2_Witness ==
    /\ LastFailedWith({429})
    /\ Len(upstream) >= 2
    /\ Len(upstream) <= maxRetries
    /\ cpc = "raised"

\* C3: when an attempt times out (fetch aborted, XApiClientError with status
\* code 0) and fewer than maxRetries retries have been used, the call sleeps
\* and issues another request, as for a server error.
C3_TimeoutRetried ==
    (/\ Len(upstream) >= 1
     /\ Len(upstream) <= maxRetries
     /\ upstream[Len(upstream)].type = "abort")
        => RetriedAtLast

\* C4: the call issues at least 1 and at most maxRetries+1 requests and
\* terminates; when all maxRetries+1 attempts fail with a retryable server
\* error it throws the error of the last attempt and returns nothing.
C4_Bounds ==
    /\ requests <= maxRetries + 1
    /\ Len(upstream) <= requests
    /\ Terminated => requests >= 1 /\ requests = Len(upstream)
    /\ (Len(upstream) = maxRetries + 1 /\ AllFailedWith(maxRetries + 1, 500..504))
          => RaisedAtLast

C4_BoundedTermination == [](C4_Bounds) /\ <>Terminated

C4_Witness ==
    /\ Len(upstream) = maxRetries + 1
    /\ maxRetries >= 1
    /\ AllFailedWith(maxRetries + 1, 500..504)
    /\ cpc = "raised"

\* C5 as stated: a failure with any non-2xx status outside 500..504 (400, 404,
\* 505, 599, ...) ends the call at that attempt.
C5_OnlyTableRowRetried ==
    LastFailedWith({s \in HttpStatuses : ~ResponseOk(s)} \ (500..504))
        => RaisedAtLast

\* C5 amended: a failure with a non-2xx status outside 500..599 ends the call
\* at that attempt, and a failure with any status in 500..599 (505 and 599
\* included) is retried while retries remain.
C5_Only5xxRetried ==
    /\ LastFailedWith({s \in HttpStatuses : ~ResponseOk(s)} \ (500..599))
          => RaisedAtLast
    /\ (LastFailedWith(500..599) /\ Len(upstream) <= maxRetries)
          => RetriedAtLast

C5_Witness ==
    /\ Len(upstream) = 2
    /\ upstream[1].type = "response" /\ upstream[1].status = 599
    /\ upstream[2].type = "response" /\ upstream[2].status = 404
    /\ maxRetries >= 2
    /\ cpc = "raised"

\* C6: the error thrown for a non-2xx status s carries statusCode = s and the
\* category of s: 401 and 403 auth failure, 402 credit exhaustion, 429 rate
\* limited, 500 through 504 (501 included) server error, anything else generic.
ClaimedCategory(s) ==
    CASE s \in {401, 403} -> "auth"
      [] s = 402 -> "credit"
      [] s = 429 -> "rate"
      [] s \in 500..504 -> "server"
      [] OTHER -> "generic"

C6_ClassificationByStatus ==
    LastFailedWith({s \in HttpStatuses : ~ResponseOk(s)})
        => /\ lastError.name = "XApiClientError"
           /\ lastError.statusCode = upstream[Len(upstream)].status
           /\ lastError.message = ClaimedCategory(upstream[Len(upstream)].status)

(***************************************************************************)
(* Properties of processTweets (under SpecProcess).                        *)
(***************************************************************************)
\* The posts of the response, in response order.
Posts == IF response.hasData THEN response.data ELSE <<>>

\* The tweet's author_id is the id of an included user.
AuthorResolved(tweet) ==
    /\ response.hasUsers
    /\ \E k \in 1..Len(response.users) : response.users[k].id = tweet.author_id

\* The first 100 characters of the text, then trimmed.
ClaimedKey(text) == Trim(SubSeq(Chars(text), 1, Min(100, Len(Chars(text)))))

\* The posts deduplication sees: author resolved and likes >= minLikes.
Qualifies(tweet) ==
    AuthorResolved(tweet) /\ tweet.public_metrics.like_count >= minLikes

\* The limit in force: the argument, or 10 when it is omitted.
ClaimedLimit == IF displayLimit.given THEN displayLimit.value ELSE 10

\* C7: every output post has likes >= minLikes, and the boundary is inclusive:
\* a post with likes = minLikes is not removed by the filter, so when nothing
\* was cut by the limit and no other post shares its key it is in the output.
C7_LikesAtLeastMinLikes ==
    ppc = "done" =>
        /\ \A i \in 1..Len(output) : output[i].likes >= minLikes
        /\ \A i \in 1..Len(Posts) :
              (/\ AuthorResolved(Posts[i])
               /\ Posts[i].public_metrics.like_count = minLikes
               /\ Len(output) < ClaimedLimit
               /\ \A j \in 1..Len(Posts) :
                     j # i => ClaimedKey(Posts[j].text) # ClaimedKey(Posts[i].text))
                 => \E k \in 1..Len(output) : output[k].id = Posts[i].id

C7_Witness ==
    /\ ppc = "done"
    /\ minLikes = 1
    /\ \E k \in 1..Len(output) : output[k].likes = minLikes
    /\ \E i \in 1..Len(Posts) :
          AuthorResolved(Posts[i]) /\ Posts[i].public_metrics.like_count < minLikes

\* C8: no two output posts share a dedup key (first 100 characters of the
\* text, trimmed), and the post kept for a key is the earliest, in response
\* order, of the author-resolved posts with likes >= minLikes that have the
\* key, whatever their like counts.
C8_DedupKeepsEarliest ==
    ppc = "done" =>
        /\ \A i, j \in 1..Len(output) :
              i # j => ClaimedKey(output[i].text) # ClaimedKey(output[j].text)
        /\ \A k \in 1..Len(output) :
              /\ output[k].id \in 1..Len(Posts)
              /\ Qualifies(Posts[output[k].id])
              /\ Posts[output[k].id].text = output[k].text
              /\ \A i \in 1..(output[k].id - 1) :
                    Qualifies(Posts[i])
                        => ClaimedKey(Posts[i].text) # ClaimedKey(output[k].text)

C8_Witness ==
    /\ ppc = "done"
    /\ \E k \in 1..Len(output) : \E j \in 1..Len(Posts) :
          /\ j > output[k].id
          /\ Qualifies(Posts[j])
          /\ Posts[j].text # output[k].text
          /\ ClaimedKey(Posts[j].text) = ClaimedKey(output[k].text)
          /\ Posts[j].public_metrics.like_count > output[k].likes

\* C9: the output is in non-increasing order of likes, and two output posts
\* with equal likes are in the order they have in the response.
C9_SortedStable ==
    ppc = "done" =>
        \A i, j \in 1..Len(output) :
            i < j => /\ output[i].likes >= output[j].likes
                     /\ output[i].likes = output[j].likes => output[i].id < output[j].id

C9_Witness ==
    /\ ppc = "done"
    /\ \E i, j \in 1..Len(output) :
          i < j /\ output[i].likes = output[j].likes
    /\ \E i, j \in 1..Len(output) :
          i < j /\ output[i].likes > output[j].likes /\ output[i].id > output[j].id

\* C10: the output is no longer than displayLimit and no longer than the
\* response's post sequence; with displayLimit omitted the bound is 10.
C10_LengthBounded ==
    ppc = "done" =>
        /\ Len(output) <= ClaimedLimit
        /\ Len(output) <= Len(Posts)

C10_Witness ==
    /\ ppc = "done"
    /\ ~displayLimit.given
    /\ Len(Posts) > 10
    /\ Len(output) = 10

\* C11: every output post comes from a post of the response whose author_id is
\* the id of an included user and carries that user's name and username; a post
\* with no matching user is dropped, never kept under a placeholder author, and
\* when includes.users is absent the output is empty.
C11_AuthorResolved ==
    ppc = "done" =>
        /\ ~response.hasUsers => output = <<>>
        /\ \A k \in 1..Len(output) :
              /\ output[k].id \in 1..Len(Posts)
              /\ \E u \in 1..Len(response.users) :
                    /\ response.users[u].id = Posts[output[k].id].author_id
                    /\ output[k].author = [name |-> response.users[u].name,
                                           username |-> response.users[u].username]
        /\ \A i \in 1..Len(Posts) :
              ~AuthorResolved(Posts[i]) => \A k \in 1..Len(output) : output[k].id # Posts[i].id

C11_Witness ==
    /\ ppc = "done"
    /\ output # <<>>
    /\ \E i \in 1..Len(Posts) :
          /\ ~AuthorResolved(Posts[i])
          /\ Posts[i].public_metrics.like_count >= minLikes

\* The posts left after author resolution, the likes filter and deduplication.
Survivors ==
    {i \in 1..Len(Posts) :
        /\ Qualifies(Posts[i])
        /\ \A j \in 1..(i - 1) :
              Qualifies(Posts[j]) => ClaimedKey(Posts[j].text) # ClaimedKey(Posts[i].text)}

\* Post i stands before post j in the sorted sequence.
RanksBefore(i, j) ==
    LET li == Posts[i].public_metrics.like_count
        lj == Posts[j].public_metrics.like_count
    IN li > lj \/ (li = lj /\ i < j)

\* C12: with n posts surviving author resolution, the filter and deduplication,
\* the output is exactly the first min(displayLimit, n) posts of their sorted
\* sequence, and every surviving post left out has likes no greater than the
\* likes of every post kept.
C12_TruncationAfterRanking ==
    ppc = "done" =>
        LET kept == {output[k].id : k \in 1..Len(output)}
        IN /\ Len(output) = Min(ClaimedLimit, Cardinality(Survivors))
           /\ kept \subseteq Survivors
           /\ \A k \in 1..Len(output) :
                 Cardinality({s \in Survivors : RanksBefore(s, output[k].id)}) = k - 1
           /\ \A s \in Survivors \ kept : \A k \in 1..Len(output) :
                 Posts[s].public_metrics.like_count <= output[k].likes

C12_Witness ==
    /\ ppc = "done"
    /\ Len(output) = ClaimedLimit
    /\ \E s \in Survivors : \E k \in 1..Len(output) :
          /\ \A j \in 1..Len(output) : output[j].id # s
          /\ s < output[k].id
          /\ Posts[s].public_metrics.like_count < output[k].likes

(***************************************************************************)
(* Properties of buildSearchQueries (under SpecQuery).                     *)
(***************************************************************************)
\* The first n of the built terms, joined by ' OR '.
RECURSIVE OrJoined(_)
OrJoined(n) ==
    IF n = 0
    THEN <<>>
    ELSE IF n = 1
         THEN keywordTerms[1]
         ELSE OrJoined(n - 1) \o <<" ", "O", "R", " ">> \o keywordTerms[n]

\* '(' + terms joined by ' OR ' + ') -is:retweet lang:' + lang
ClaimedQuery ==
    <<"(">> \o OrJoined(Len(keywordTerms))
        \o <<")", " ", "-", "i", "s", ":", "r", "e", "t", "w", "e", "e", "t", " ",
             "l", "a", "n", "g", ":">>
        \o settings.lang

Quoted(term) == <<"\"">> \o term \o <<"\"">>

\* C14: for a non-empty keyword list whose composed string has at most 1024
\* characters, the call returns exactly one query: '(' + the terms (each bare
\* or in double quotes) joined by ' OR ' in the order given + ') -is:retweet
\* lang:' + settings.lang, the retweet clause before the language clause.
C14_SingleQueryShape ==
    (qpc = "done" /\ keywords # <<>>) =>
        /\ Len(keywordTerms) = Len(keywords)
        /\ \A i \in 1..Len(keywords) :
              keywordTerms[i] \in {Chars(keywords[i].term), Quoted(Chars(keywords[i].term))}
        /\ Len(ClaimedQuery) <= 1024 =>
              /\ built.kind = "return"
              /\ built.queries = <<ClaimedQuery>>

C14_Witness ==
    /\ qpc = "done"
    /\ Len(keywords) = 2
    /\ keywords[1].term # keywords[2].term
    /\ Len(ClaimedQuery) = 1024
    /\ built.kind = "return"

\* C15 as stated: a term is wrapped in double quotes if and only if it holds a
\* whitespace character of any kind (a tab as well as a space).
C15_QuotedIffWhitespace ==
    (qpc = "done" /\ keywords # <<>>) =>
        \A i \in 1..Len(keywords) :
            LET term == Chars(keywords[i].term)
            IN keywordTerms[i] =
                   IF \E k \in 1..Len(term) : term[k] \in Whitespace
                   THEN Quoted(term)
                   ELSE term

\* C15 amended: a term is wrapped in double quotes if and only if it holds a
\* space character (U+0020); a term with no space, whatever other whitespace
\* it holds, is left exactly as it is.
C15_QuotedIffSpace ==
    (qpc = "done" /\ keywords # <<>>) =>
        \A i \in 1..Len(keywords) :
            LET term == Chars(keywords[i].term)
            IN keywordTerms[i] =
                   IF \E k \in 1..Len(term) : term[k] = " "
                   THEN Quoted(term)
                   ELSE term

C15_Witness ==
    /\ qpc = "done"
    /\ \E i, j \in 1..Len(keywords) :
          /\ keywords[i].term = TermTabbed
          /\ keywordTerms[i] = Chars(TermTabbed)
          /\ keywords[j].term = TermSpaced
          /\ keywordTerms[j] = Quoted(Chars(TermSpaced))

\* C16: for a non-empty keyword list the call fails exactly when the composed
\* string is longer than 1024 characters, with the query-too-long error and
\* no query returned (no split into several); a composed string of exactly
\* 1024 characters is returned as the single query.
C16_TooLongExactlyAbove1024 ==
    (qpc = "done" /\ keywords # <<>>) =>
        /\ built.kind = "throw" <=> Len(ClaimedQuery) > 1024
        /\ built.kind = "throw" =>
              /\ built.error.message = "queryTooLong"
              /\ built.queries = <<>>
        /\ Len(ClaimedQuery) = 1024 => built.queries = <<ClaimedQuery>>

C16_Witness ==
    /\ qpc = "done"
    /\ Len(keywords) = 2
    /\ Len(ClaimedQuery) = 1025
    /\ built.kind = "throw"

\* C17: with an empty keyword list the call fails with the no-keywords
\* configuration error and returns no query, whatever the settings.
C17_EmptyKeywordsFail ==
    (qpc = "done" /\ keywords = <<>>) =>
        /\ built.kind = "throw"
        /\ built.error.message = "noKeywords"
        /\ built.queries = <<>>

C17_Witness ==
    /\ qpc = "done"
    /\ keywords = <<>>
    /\ settings.lang = LangUnd
    /\ settings.min_likes = 1
    /\ built.kind = "throw"

(***************************************************************************)
(* Properties of webhook delivery (under SpecNotify).                      *)
(***************************************************************************)
\* A POST that did not succeed: a rejection, a timeout or a non-2xx response.
PostFailed(o) ==
    \/ o.type \in {"abort", "network"}
    \/ o.type = "response" /\ ~(o.status >= 200 /\ o.status <= 299)

PostSucceeded(o) == o.type = "response" /\ o.status >= 200 /\ o.status <= 299

\* The number of POSTs of the method that have settled.
SettledPosts(method) == posts[method] - (IF npc = "posting" THEN 1 ELSE 0)

\* C18: sendDailySummary makes at most 3 POSTs; a POST that fails in any way
\* (rejection, timeout, non-2xx response, 4xx included) is followed by a sleep
\* and another POST while fewer than 3 have been made; the first successful
\* POST ends the delivery; and the third failure ends it with the error of
\* that third attempt.
C18_AtMostThreePosts ==
    nmethod = "summary" =>
        /\ posts.summary <= 3
        /\ (PostFailed(lastPost) /\ SettledPosts("summary") < 3) =>
              /\ npc \in {"sleeping", "posting"}
              /\ nsleeps = SettledPosts("summary")
              /\ nresult.kind = "pending"
        /\ PostSucceeded(lastPost) =>
              /\ npc = "done"
              /\ nresult.kind = "return"
              /\ nsleeps = posts.summary - 1
        /\ (PostFailed(lastPost) /\ SettledPosts("summary") = 3) =>
              /\ npc = "done"
              /\ nresult.kind = "throw"
              /\ lastPost.type = "response" =>
                    /\ nresult.error.message = "slackApi"
                    /\ nresult.error.statusCode = lastPost.status
              /\ lastPost.type = "abort" => nresult.error.message = "slackTimeout"
              /\ lastPost.type = "network" => nresult.error = FetchRejection

C18_Witness ==
    /\ nmethod = "summary"
    /\ npc = "done"
    /\ posts.summary = 3
    /\ nsleeps = 2
    /\ lastPost = [type |-> "response", status |-> 404]
    /\ nresult.kind = "throw"

\* C20: sendErrorNotification never throws and makes at most 3 POSTs, and
\* whatever the POSTs settle with, all three failing included, it returns.
C20_Bounds ==
    nmethod = "error" =>
        /\ nresult.kind # "throw"
        /\ posts.error <= 3

C20_ErrorNotificationNeverRaises ==
    /\ [](C20_Bounds)
    /\ (nmethod = "error") ~> (npc = "done" /\ nresult.kind = "return")

C20_Witness ==
    /\ nmethod = "error"
    /\ npc = "done"
    /\ posts.error = 3
    /\ PostFailed(lastPost)
    /\ nresult.kind = "return"

(***************************************************************************)
(* Properties of the daily job (under SpecJob).                            *)
(***************************************************************************)
\* The error of the failed step, where the step's own result is still at hand.
OriginalErrorKept ==
    /\ built.kind = "throw" => jobResult.error = built.error
    /\ cpc = "raised" => jobResult.error = outcome.error
    /\ (qpc = "unused" /\ jpc = "failed") => jobResult.error.message = "noKeywordArray"

\* C19 as stated: whenever a step of the job fails, the failure notification
\* is attempted exactly once, and the job ends with the original error.
C19_NotifiedOnceOriginalError ==
    jpc = "failed" =>
        /\ notified = 1
        /\ posts.error \in 1..3
        /\ jobResult = Throw(jobError)
        /\ OriginalErrorKept

\* C19 amended: whenever a step of the job fails and the webhook URL is not
\* empty, the failure notification is attempted exactly once (1 to 3 POSTs);
\* with an empty webhook URL it is not attempted and nothing is posted.  In
\* both cases, and whatever the notification's POSTs settle with, the job
\* ends by throwing the original error.
C19_NotifiedOnceWhenWebhookSet ==
    /\ jpc = "failed" =>
          /\ env.SLACK_WEBHOOK_URL # "" => (notified = 1 /\ posts.error \in 1..3)
          /\ env.SLACK_WEBHOOK_URL = "" => (notified = 0 /\ posts.error = 0)
          /\ jobResult = Throw(jobError)
          /\ OriginalErrorKept
    /\ jobError # NoError =>
          /\ jpc \in {"notify", "failed"}
          /\ jobResult.kind # "return"
          /\ notified <= 1

C19_Witness ==
    /\ jpc = "failed"
    /\ cpc = "raised"
    /\ notified = 1
    /\ posts.error = 3
    /\ PostFailed(lastPost)
    /\ jobResult = Throw(outcome.error)

\* A stage starts at most once, and the stages start in the order query build,
\* search, process, daily-summary delivery.
StagesStartOnce ==
    /\ qpc' = "ready" => qpc \in {"unused", "ready"}
    /\ cpc' = "idle" => cpc \in {"unused", "idle"}
    /\ ppc' = "ready" => ppc \in {"idle", "ready"}
    /\ nmethod' = "summary" => nmethod \in {"none", "summary"}
    /\ (qpc' = "ready" /\ qpc = "unused") => (cpc = "unused" /\ ppc = "idle" /\ nmethod = "none")
    /\ (cpc' = "idle" /\ cpc = "unused") => (qpc = "done" /\ ppc = "idle" /\ nmethod = "none")
    /\ (ppc' = "ready" /\ ppc = "idle") => (cpc = "returned" /\ nmethod = "none")
    /\ (nmethod' = "summary" /\ nmethod = "none") => ppc = "done"

StagesInOrder ==
    /\ requests >= 1 => (qpc = "done" /\ built.kind = "return")
    /\ posts.summary >= 1 => (cpc = "returned" /\ outcome.kind = "return" /\ ppc = "done")
    /\ (built.kind = "throw" \/ cpc = "raised") =>
          /\ posts.summary = 0
          /\ jpc \notin {"process", "send", "completed"}
          /\ jobResult.kind # "return"
          /\ ppc = "idle"
    /\ built.kind = "throw" => requests = 0

\* C21: in a run of the daily job the stages query build, search, process and
\* notify start in that order and at most once each; no search request is
\* issued unless the query was built, no daily-summary POST is sent unless the
\* search returned a response, and when query building or the search fails
\* the run aborts without a daily-summary POST.
C21_StagesInOrder == [](StagesInOrder) /\ [][StagesStartOnce]_vars

C21_Witness ==
    /\ jpc = "completed"
    /\ requests = 2
    /\ posts.summary = 2
    /\ ppc = "done"
    /\ qpc = "done"

(***************************************************************************)
(* Properties of the manual trigger (under SpecTrigger).                   *)
(***************************************************************************)
\* A secret is configured and the request's key is that secret.
KeyMatchesSecret ==
    /\ manualTriggerKey.given
    /\ manualTriggerKey.value # ""
    /\ queryKey.given
    /\ queryKey.value = manualTriggerKey.value

\* C22: the trigger endpoint runs the daily job only when a secret is
\* configured and the request's key equals it; with a missing key, a wrong
\* key or no configured secret it answers 401, and no search request and no
\* webhook POST is issued.
C22_TriggerRequiresKey ==
    /\ jpc # "unused" => KeyMatchesSecret
    /\ httpStatus \in {200, 500} => KeyMatchesSecret
    /\ ~KeyMatchesSecret =>
          /\ requests = 0
          /\ posts = [summary |-> 0, error |-> 0]
          /\ tpc = "answered" => httpStatus = 401

C22_Witness ==
    /\ tpc = "answered"
    /\ httpStatus = 401
    /\ manualTriggerKey = Present("valid-key")
    /\ queryKey = Present("wrong-key")
    /\ env.X_BEARER_TOKEN # ""
    /\ env.SLACK_WEBHOOK_URL # ""

(***************************************************************************)
(* Properties of the daily job's summary and threshold (under SpecJob).    *)
(***************************************************************************)
\* The summary has been built from the output of processTweets.
SummaryBuilt == ppc = "done" /\ jpc # "process"

\* The posts left by the quality filter: author resolved, likes >= minLikes.
AfterFilter == {i \in 1..Len(Posts) : Qualifies(Posts[i])}

\* C23: the summary's `filtered` statistic is the number of posts left after
\* the quality filter (likes >= minLikes), whatever deduplication and the
\* limit remove afterwards; `displayed` is the number of posts in the output.
C23_FilteredIsPostFilterCount ==
    SummaryBuilt =>
        /\ summary.stats.filtered = Cardinality(AfterFilter)
        /\ summary.stats.displayed = Len(output)

(***************************************************************************)
(* Further properties of searchRecentTweetsWithRetry (under SpecClient).   *)
(***************************************************************************)
SequentialState ==
    /\ inflight \in {0, 1}
    /\ inflight = 1 <=> cpc = "inflight"
    /\ requests = Len(upstream) + inflight
    /\ requests = 0 => sleeps = 0
    /\ cpc = "inflight" => sleeps = requests - 1
    /\ cpc = "sleeping" => (sleeps = requests /\ requests <= maxRetries)
    /\ cpc \in {"returned", "raised"} => sleeps = requests - 1
    /\ \A i \in 1..(Len(upstream) - 1) : ~Succeeded(upstream[i])

\* A request is issued only while none is in flight: the first at the call,
\* every later one when a sleep ends.
AttemptStarts ==
    requests' # requests =>
        /\ requests' = requests + 1
        /\ inflight = 0
        /\ (requests = 0 /\ cpc = "idle") \/ cpc = "sleeping"

\* A sleep starts only when the request in flight fails.
SleepStarts ==
    sleeps' # sleeps =>
        /\ sleeps' = sleeps + 1
        /\ cpc = "inflight"
        /\ cpc' = "sleeping"
        /\ ~Succeeded(upstream'[Len(upstream')])

\* C24: within one call at most one request is in flight at any time; an
\* attempt after the first starts only after the attempt before it failed and
\* exactly one sleep has ended; there is no sleep before the first attempt
\* and none after the last.
C24_RetriesSequential == [](SequentialState) /\ [][AttemptStarts /\ SleepStarts]_vars

C24_Witness ==
    /\ cpc = "raised"
    /\ maxRetries = 2
    /\ requests = 3
    /\ sleeps = 2
    /\ inflight = 0

(***************************************************************************)
(* Further properties of processTweets (under SpecProcess).                *)
(***************************************************************************)
\* C25: when displayLimit is at least the number of posts, every dedup key
\* that has an author-resolved post with likes >= minLikes appears exactly
\* once in the output, also when an earlier post with that key has likes
\* below minLikes.
C25_FilterBeforeDedup ==
    (ppc = "done" /\ ClaimedLimit >= Len(Posts)) =>
        \A i \in 1..Len(Posts) :
            Qualifies(Posts[i]) =>
                Cardinality({k \in 1..Len(output) :
                    ClaimedKey(output[k].text) = ClaimedKey(Posts[i].text)}) = 1

C25_Witness ==
    /\ ppc = "done"
    /\ ClaimedLimit >= Len(Posts)
    /\ \E i, j \in 1..Len(Posts) :
          /\ i < j
          /\ ClaimedKey(Posts[i].text) = ClaimedKey(Posts[j].text)
          /\ AuthorResolved(Posts[i])
          /\ Posts[i].public_metrics.like_count < minLikes
          /\ Qualifies(Posts[j])
          /\ \E k \in 1..Len(output) : output[k].id = Posts[j].id


(***************************************************************************)
(* C26: every failure the search raises is an XApiClientError.  A          *)
(* transport failure that is not a timeout (fetch rejects with a network   *)
(* error, or a 2xx response carries a body that does not parse) is raised  *)
(* as an XApiClientError with status code 0 and the "request failed"       *)
(* message, and searchRecentTweetsWithRetry raises it at once: no sleep    *)
(* follows it and no further request is issued.                            *)
(***************************************************************************)
TransportFailure(o) ==
    \/ o.type = "network"
    \/ o.type = "response" /\ ResponseOk(o.status) /\ o.body \notin Payloads

C26_TransportFailureIsClientErrorZero ==
    /\ outcome.kind = "throw" => outcome.error.name = "XApiClientError"
    /\ lastError # NoError => lastError.name = "XApiClientError"
    /\ (Len(upstream) > 0 /\ TransportFailure(upstream[Len(upstream)])) =>
          /\ cpc = "raised"
          /\ outcome = Throw(XApiClientError("failed", 0, <<>>))
          /\ requests = Len(upstream)
          /\ sleeps = Len(upstream) - 1
          /\ inflight = 0

\* A server error was retried, the second fetch failed in transport with
\* retries remaining, and the call was raised after two requests.
C26_Witness ==
    /\ cpc = "raised"
    /\ maxRetries = 2
    /\ Len(upstream) = 2
    /\ upstream[1].status = 503
    /\ TransportFailure(upstream[2])
    /\ requests = 2
    /\ sleeps = 1
    /\ outcome.error.statusCode = 0


(***************************************************************************)
(* C27: the job filters with the single global min_likes.  A keyword's own *)
(* min_likes (the value getMinLikes would select for it) has no effect on  *)
(* the output of a run: every post of the output has at least the global   *)
(* min_likes, and every author-resolved post of the response with at least *)
(* the global min_likes has its key in the output, whatever the keywords   *)
(* say.                                                                    *)
(***************************************************************************)
JobProcessed == ppc = "done" /\ jpc \notin {"start", "build", "search"}

JobEnded == jpc \in {"completed", "failed"}

\* The job failed after a POST of the summary: the delivery failed.
SummaryDeliveryFailed == jpc = "failed" /\ posts.summary > 0

BoundedRequests ==
    /\ posts.summary + posts.error <= 6
    /\ requests <= 2
    /\ SummaryDeliveryFailed =>
          /\ notified = 1
          /\ posts.error >= 1
          /\ env.SLACK_WEBHOOK_URL # ""

C28_BoundedAndTerminates == [](BoundedRequests) /\ <>(JobEnded)

\* The search was retried once, the summary was POSTed three times and
\* failed, and the failure notification was POSTed three times.
C28_Witness ==
    /\ jpc = "failed"
    /\ requests = 2
    /\ posts.summary = 3
    /\ posts.error = 3
    /\ notified = 1


(***************************************************************************)
(* C29: with an empty webhook URL the job still issues the search request  *)
(* before the missing URL is detected, and then fails without any webhook  *)
(* POST, of the summary or of the failure notification.  With an empty     *)
(* credential token it fails before any search request.                    *)
(***************************************************************************)
MissingWebhookDetected ==
    jobError.name = "Error" /\ jobError.message = "noWebhook"

C29_MissingSettings ==
    /\ env.SLACK_WEBHOOK_URL = "" =>
          /\ posts.summary = 0
          /\ posts.error = 0
          /\ notified = 0
          /\ jpc # "completed"
    /\ MissingWebhookDetected =>
          /\ env.SLACK_WEBHOOK_URL = ""
          /\ jpc = "failed"
          /\ requests >= 1
          /\ cpc = "returned"
          /\ ppc = "done"
    /\ env.X_BEARER_TOKEN = "" =>
          /\ requests = 0
          /\ cpc = "unused"
          /\ jpc # "completed"

\* The search returned after a retry, the posts were processed, and the job
\* failed on the empty webhook URL without a POST.
C29_Witness ==
    /\ env.SLACK_WEBHOOK_URL = ""
    /\ jpc = "failed"
    /\ MissingWebhookDetected
    /\ requests = 2
    /\ posts.summary + posts.error = 0


(***************************************************************************)
(* C30: processTweets leaves its input as it was: the response's posts and *)
(* its included users are the same after the call as before it, for every  *)
(* minLikes and displayLimit.                                              *)
(***************************************************************************)
ProcessCall == ppc = "ready" /\ ppc' = "done"

InputUnchanged ==
    /\ response'.hasData = response.hasData
    /\ response'.data = response.data
    /\ response'.hasUsers = response.hasUsers
    /\ response'.users = response.users

C30_ProcessLeavesInput == [][ProcessCall => InputUnchanged]_vars

\* A call that dropped the first of two posts and returned the second.
C30_Witness ==
    /\ ppc = "done"
    /\ response.hasData
    /\ Len(response.data) = 2
    /\ Len(output) = 1
    /\ output[1].id = response.data[2].id

=============================================================================
